---------------------------- MODULE Spec2Model ----------------------------
(***************************************************************************)
(* State-machine model of load_data.py: load_data_from_folder and the      *)
(* per-split load_data pass.  One behaviour is one call of                 *)
(* load_data_from_folder; the initial state is the state after the three   *)
(* read_csv calls (lines 31-36), and every later block of the function is  *)
(* one action.                                                             *)
(*                                                                         *)
(* A data frame is a record [columns, rows]: the ordered column names and  *)
(* the ordered rows.  A row is [src, idx, cells]: src names the file and   *)
(* the position the row was read from (its identity), idx is its label in  *)
(* the frame's index, cells maps each column name to a value.              *)
(* Numbers are held doubled (one binary fractional digit), so the mean of  *)
(* the two middle values of a column of whole inputs is exact.             *)
(***************************************************************************)
EXTENDS Integers, Sequences, FiniteSets, TLC

VARIABLES
    args,                     \* the call's arguments (never assigned)
    files,                    \* the tables as read: [train, val, test]
    pc,                       \* position in load_data_from_folder
    train_df, val_df, test_df,
    data_df,                  \* the concatenated table (line 40 onwards)
    categorical_cols,         \* local, reassigned at lines 44 and 51
    categorical_encode_type,  \* local, reassigned at line 58
    numerical_transformer,    \* None or the transformer and its fitted state
    train_dataset, val_dataset, test_dataset,
    raised,                   \* the exception that ended the call, or "none"
    events                    \* the fits, transforms and raises, in order

vars == <<args, files, pc, train_df, val_df, test_df, data_df,
          categorical_cols, categorical_encode_type, numerical_transformer,
          train_dataset, val_dataset, test_dataset, raised, events>>

-----------------------------------------------------------------------------
(* Bounds of the model *)

\* longest train/test table of the index-label sweep
MaxRows == 2
\* rows a large table has beyond the debug limit
BigExtra == 1
\* most text columns of a row in the text sweep
MaxTexts == 3

\* load_data line 144: data_df[:50]
DEBUG_ROWS == 50

-----------------------------------------------------------------------------
(* Values and small helpers *)

None == [k |-> "None", s |-> "", n |-> 0]
NaN == [k |-> "nan", s |-> "", n |-> 0]
Str(s) == [k |-> "str", s |-> s, n |-> 0]
Num(n) == [k |-> "num", s |-> "", n |-> n]

IsNone(x) == x = None

Range(s) == {s[i] : i \in DOMAIN s}

Min(a, b) == IF a < b THEN a ELSE b

RECURSIVE Flatten(_)
Flatten(ss) == IF ss = <<>> THEN <<>> ELSE Head(ss) \o Flatten(Tail(ss))

\* str.startswith
StartsWith(s, p) == Len(s) >= Len(p) /\ SubSeq(s, 1, Len(p)) = p

Digit(d) == <<"0", "1", "2", "3", "4", "5", "6", "7", "8", "9">>[d + 1]

RECURSIVE NatStr(_)
NatStr(n) == IF n < 10 THEN Digit(n) ELSE NatStr(n \div 10) \o Digit(n % 10)

\* str() of a cell: a doubled number d prints as d/2 with one decimal digit
ToStr(v) ==
    CASE v.k = "str" -> v.s
      [] v.k = "nan" -> "nan"
      [] v.k = "None" -> "None"
      [] v.k = "num" -> NatStr(v.n \div 2) \o (IF v.n % 2 = 0 THEN ".0" ELSE ".5")


-----------------------------------------------------------------------------
(* Data frames (pandas) *)

Frame(columns, rows) == [columns |-> columns, rows |-> rows]

Index(df) == [i \in DOMAIN df.rows |-> df.rows[i].idx]

Srcs(rows) == [i \in DOMAIN rows |-> rows[i].src]

HasDuplicates(labels) ==
    \E i, j \in DOMAIN labels : i < j /\ labels[i] = labels[j]

\* pd.concat(dfs, axis=0): the rows of each frame in turn, labels kept
ConcatRows(dfs) == Frame(Head(dfs).columns, Flatten([i \in DOMAIN dfs |-> dfs[i].rows]))

\* df.loc[labels]: for each label in turn, every row carrying that label
Loc(df, labels) ==
    Frame(df.columns,
          Flatten([i \in DOMAIN labels |->
                     SelectSeq(df.rows, LAMBDA r : r.idx = labels[i])]))

\* data_df[:n]
HeadRows(df, n) == Frame(df.columns, SubSeq(df.rows, 1, Min(n, Len(df.rows))))

\* the categories a column can hold, in sorted order
CatLevels == <<"a", "b">>

\* the levels get_dummies makes indicators for: the observed categories,
\* sorted, then the missing level (dummy_na=True)
LevelsOf(df, col) ==
    [i \in DOMAIN SelectSeq(CatLevels,
                            LAMBDA l : \E j \in DOMAIN df.rows :
                                          df.rows[j].cells[col] = Str(l)) |->
        Str(SelectSeq(CatLevels,
                      LAMBDA l : \E j \in DOMAIN df.rows :
                                    df.rows[j].cells[col] = Str(l))[i])]
    \o <<NaN>>

\* the indicator columns of one encoded column: name, source column, level
DummiesOf(df, col) ==
    [i \in DOMAIN LevelsOf(df, col) |->
        [name |-> col \o "_" \o ToStr(LevelsOf(df, col)[i]),
         col |-> col,
         level |-> LevelsOf(df, col)[i]]]

\* pd.get_dummies(df, columns=cols, dummy_na=True): the other columns in
\* their order, then the indicators of each encoded column in turn
GetDummies(df, cols) ==
    LET kept == SelectSeq(df.columns, LAMBDA c : c \notin Range(cols))
        dums == Flatten([i \in DOMAIN cols |-> DummiesOf(df, cols[i])])
        names == kept \o [i \in DOMAIN dums |-> dums[i].name]
        NewCells(r) ==
            [c \in Range(names) |->
                IF c \in Range(kept) THEN r.cells[c]
                ELSE LET d == CHOOSE d \in Range(dums) : d.name = c
                     IN  IF r.cells[d.col] = d.level THEN Num(2) ELSE Num(0)]
    IN  Frame(names,
              [i \in DOMAIN df.rows |->
                  [src |-> df.rows[i].src, idx |-> df.rows[i].idx,
                   cells |-> NewCells(df.rows[i])]])

\* pd.DataFrame(vals, columns=names): a fresh frame, labelled 0..N-1
NewFrame(vals, names) ==
    Frame(names,
          [i \in DOMAIN vals |->
              [src |-> <<"cat_df", i>>, idx |-> i - 1,
               cells |-> [c \in Range(names) |->
                            vals[i][CHOOSE j \in DOMAIN names : names[j] = c]]]])

\* pd.concat([left, right], axis=1): the frames are joined on their index
\* labels (outer join).  Equal indexes are pasted side by side; otherwise
\* each label of either frame gives one row, holding NaN in the columns of
\* the frame that lacks the label.  Left's labels come first, then the
\* labels only right has.  Defined for unique indexes.
ConcatColumns(left, right) ==
    LET names == left.columns \o right.columns
        Blank(cols) == [c \in Range(cols) |-> NaN]
        Cells(l, r) == [c \in Range(names) |->
                          IF c \in Range(left.columns) THEN l[c] ELSE r[c]]
        RightOf(lab) ==
            IF \E j \in DOMAIN right.rows : right.rows[j].idx = lab
            THEN right.rows[CHOOSE j \in DOMAIN right.rows :
                                right.rows[j].idx = lab].cells
            ELSE Blank(right.columns)
        only == SelectSeq(right.rows,
                          LAMBDA r : \A j \in DOMAIN left.rows :
                                        left.rows[j].idx # r.idx)
    IN  IF Index(left) = Index(right)
        THEN Frame(names,
                   [i \in DOMAIN left.rows |->
                       [src |-> left.rows[i].src, idx |-> left.rows[i].idx,
                        cells |-> Cells(left.rows[i].cells, right.rows[i].cells)]])
        ELSE Frame(names,
                   [i \in DOMAIN left.rows |->
                       [src |-> left.rows[i].src, idx |-> left.rows[i].idx,
                        cells |-> Cells(left.rows[i].cells,
                                        RightOf(left.rows[i].idx))]]
                   \o
                   [i \in DOMAIN only |->
                       [src |-> <<"joined", only[i].idx>>, idx |-> only[i].idx,
                        cells |-> Cells(Blank(left.columns), only[i].cells)]])

\* pd.concat(axis=1) cannot align a frame whose index repeats a label with a
\* frame that has another index
ConcatColumnsRaises(left, right) ==
    /\ Index(left) # Index(right)
    /\ HasDuplicates(Index(left)) \/ HasDuplicates(Index(right))

-----------------------------------------------------------------------------
(* Column selection *)

ColNone == [kind |-> "None", names |-> <<>>]
ColList(names) == [kind |-> "list", names |-> names]
\* an argument that is neither None, a function, a list nor a set: a str
ColBad == [kind |-> "bad", names |-> <<>>]

\* convert_to_func: the assert of line 185
convert_to_func_raises(arg) == arg.kind \notin {"None", "list"}

\* convert_to_func: the predicate returned; Matches applies it
convert_to_func(arg) ==
    IF arg.kind = "None" THEN [kind |-> "false", names |-> {}]
    ELSE [kind |-> "in", names |-> Range(arg.names)]

Matches(func, df, x) == func.kind = "in" /\ x \in func.names

get_matching_cols(df, col_match_func) ==
    SelectSeq(df.columns, LAMBDA c : Matches(col_match_func, df, c))

-----------------------------------------------------------------------------
(* Text aggregation *)

\* agg_text_columns_func with the replacement branch (lines 197-198) lost:
\* a sentinel is always dropped
RECURSIVE agg_text_columns_func_dropping(_, _, _)
agg_text_columns_func_dropping(empty_row_values, replace_text, texts) ==
    IF texts = <<>> THEN <<>>
    ELSE LET text == ToStr(Head(texts))
             rest == agg_text_columns_func_dropping(empty_row_values, replace_text,
                                                    Tail(texts))
         IN  IF text \notin empty_row_values THEN <<text>> \o rest ELSE rest

\* agg_text_columns_func: the loop of lines 193-198 over texts.astype('str')
RECURSIVE agg_text_columns_func(_, _, _)
agg_text_columns_func(empty_row_values, replace_text, texts) ==
    IF texts = <<>> THEN <<>>
    ELSE LET text == ToStr(Head(texts))
             rest == agg_text_columns_func(empty_row_values, replace_text,
                                           Tail(texts))
         IN  IF text \notin empty_row_values THEN <<text>> \o rest
             ELSE IF ~IsNone(replace_text) THEN <<ToStr(replace_text)>> \o rest
             ELSE rest

\* str.join
RECURSIVE Join(_, _)
Join(sep, strs) ==
    IF strs = <<>> THEN ""
    ELSE IF Len(strs) = 1 THEN strs[1]
    ELSE strs[1] \o sep \o Join(sep, Tail(strs))

\* load_data lines 145-146
NoEmptyTextValues == [given |-> FALSE, vals |-> {}]
EmptyTextValues(S) == [given |-> TRUE, vals |-> S]
SentinelsOf(empty_text_values) ==
    IF ~empty_text_values.given THEN {"nan", "None"} ELSE empty_text_values.vals

\* load_data lines 157-162: one joined string per row
TextsOf(df, texts_cols, empty_text_values, replace_empty_text, sep_text_token_str) ==
    [i \in DOMAIN df.rows |->
        Join(" " \o sep_text_token_str \o " ",
             agg_text_columns_func(
                 SentinelsOf(empty_text_values), replace_empty_text,
                 [j \in DOMAIN texts_cols |-> df.rows[i].cells[texts_cols[j]]]))]

-----------------------------------------------------------------------------
(* Numerical features *)

\* the k-th smallest of a sequence of numbers
Kth(xs, k) ==
    CHOOSE v \in Range(xs) :
        /\ Cardinality({i \in DOMAIN xs : xs[i] < v}) < k
        /\ k <= Cardinality({i \in DOMAIN xs : xs[i] <= v})

\* Series.median(): the middle of the values that are not missing, NaN
\* when there is none
Median(vals) ==
    LET xs == SelectSeq(vals, LAMBDA v : v.k = "num")
        ns == [i \in DOMAIN xs |-> xs[i].n]
        n == Len(ns)
    IN  IF n = 0 THEN NaN
        ELSE IF n % 2 = 1 THEN Num(Kth(ns, (n + 1) \div 2))
        ELSE Num((Kth(ns, n \div 2) + Kth(ns, n \div 2 + 1)) \div 2)

Column(df, c) == [i \in DOMAIN df.rows |-> df.rows[i].cells[c]]

\* df[num_cols] = df[num_cols].fillna(df[num_cols].median())   (line 220)
FillNa(df, num_cols) ==
    Frame(df.columns,
          [i \in DOMAIN df.rows |->
              [df.rows[i] EXCEPT !.cells =
                  [c \in DOMAIN df.rows[i].cells |->
                      IF c \in Range(num_cols) /\ df.rows[i].cells[c] = NaN
                      THEN Median(Column(df, c))
                      ELSE df.rows[i].cells[c]]]])

\* df[cols].values, each matrix row tagged with the table row it came from
Values(df, cols) ==
    [i \in DOMAIN df.rows |->
        [src |-> df.rows[i].src,
         x |-> [j \in DOMAIN cols |-> df.rows[i].cells[cols[j]]]]]

Absent == [present |-> FALSE, by |-> "", X |-> <<>>]
Matrix(X) == [present |-> TRUE, by |-> "", X |-> X]

\* load_num_feats: the frame as left by the in-place fillna, and the matrix
load_num_feats(df, num_bool_func) ==
    LET num_cols == get_matching_cols(df, num_bool_func)
        filled == FillNa(df, num_cols)
    IN  [df |-> filled,
         feats |-> IF Len(num_cols) = 0 THEN Absent
                   ELSE Matrix(Values(filled, num_cols))]

NoTransformer == [method |-> "None", fitted |-> <<>>, n_fit |-> 0]

\* PowerTransformer(...) / QuantileTransformer(...): not fitted yet
NewTransformer(method) == [method |-> method, fitted |-> <<>>, n_fit |-> 0]

\* transformer.fit(X): the fitted statistics are a function of X
Fit(transformer, X) ==
    [transformer EXCEPT !.fitted = X, !.n_fit = @ + 1]

\* transformer.transform(X): reads the fitted statistics, leaves them as
\* they are
Transform(transformer, X) ==
    [transformer |-> transformer,
     out |-> [present |-> TRUE, by |-> transformer.method, X |-> X]]

\* normalize_numerical_feats
normalize_numerical_feats(numerical_feats, transformer) ==
    IF ~numerical_feats.present \/ transformer = NoTransformer
    THEN [transformer |-> transformer, out |-> numerical_feats]
    ELSE Transform(transformer, numerical_feats.X)

-----------------------------------------------------------------------------
(* Categorical features: CategoricalFeatures of encode_features *)

\* the distinct values of a column, in category order, the missing one last
DistinctOf(df, col) ==
    SelectSeq([i \in 1..Len(CatLevels) |-> Str(CatLevels[i])] \o <<NaN>>,
              LAMBDA v : \E j \in DOMAIN df.rows : df.rows[j].cells[col] = v)

RECURSIVE CeilLog2(_)
CeilLog2(n) == IF n <= 1 THEN 0 ELSE 1 + CeilLog2((n + 1) \div 2)

RECURSIVE Pow2(_)
Pow2(b) == IF b = 0 THEN 1 ELSE 2 * Pow2(b - 1)

\* binary scheme: <col>_<bit> for each bit of the column's code
BinaryFeatNames(df, cols) ==
    Flatten([i \in DOMAIN cols |->
               [b \in 1..CeilLog2(Len(DistinctOf(df, cols[i]))) |->
                   cols[i] \o "_" \o NatStr(b - 1)]])

\* binary scheme: the bits of the ordinal of a value among the column's
\* distinct values
BinaryCode(df, col, v) ==
    LET ds == DistinctOf(df, col)
        ord == (CHOOSE k \in DOMAIN ds : ds[k] = v) - 1
    IN  [b \in 1..CeilLog2(Len(ds)) |-> Num(2 * ((ord \div Pow2(b - 1)) % 2))]

\* CategoricalFeatures(df, cols, 'binary').fit_transform(): one row of codes
\* per row of df, in df's row order
BinaryVals(df, cols) ==
    [i \in DOMAIN df.rows |->
        Flatten([j \in DOMAIN cols |->
                   BinaryCode(df, cols[j], df.rows[i].cells[cols[j]])])]

\* the schemes fit_transform knows; any other is an error
CategoricalFeaturesRaises(encode_type) ==
    encode_type \notin {"None", "none", "ohe", "binary"}

\* load_cat_feats
load_cat_feats_raises(df, cat_bool_func, encode_type) ==
    /\ Len(get_matching_cols(df, cat_bool_func)) # 0
    /\ CategoricalFeaturesRaises(encode_type)

load_cat_feats(df, cat_bool_func, encode_type) ==
    LET cat_cols == get_matching_cols(df, cat_bool_func)
    IN  IF Len(cat_cols) = 0 THEN Absent ELSE Matrix(Values(df, cat_cols))

-----------------------------------------------------------------------------
(* load_data: one split's pass *)

NoFrame == Frame(<<>>, <<>>)

NoDataset ==
    [present |-> FALSE, df |-> NoFrame, texts |-> <<>>,
     categorical_feats |-> Absent, numerical_feats |-> Absent, labels |-> <<>>]

\* the exception load_data ends with, or "none"
load_data_raises(df, cat_cols, encode_type) ==
    IF \/ convert_to_func_raises(args.text_cols)
       \/ convert_to_func_raises(cat_cols)
       \/ convert_to_func_raises(args.numerical_cols)
    THEN "AssertionError"
    ELSE IF load_cat_feats_raises(df, convert_to_func(cat_cols), encode_type)
    THEN "Exception: encoding type"
    ELSE "none"

\* load_data: the frame after line 144 and the in-place fillna, the
\* transformer after the pass, and the TorchTextDataset built
load_data(df, cat_cols, encode_type, transformer) ==
    LET cut == IF args.debug THEN HeadRows(df, DEBUG_ROWS) ELSE df
        categorical_feats == load_cat_feats(cut, convert_to_func(cat_cols), encode_type)
        num == load_num_feats(cut, convert_to_func(args.numerical_cols))
        normed == normalize_numerical_feats(num.feats, transformer)
        texts_cols == get_matching_cols(num.df, convert_to_func(args.text_cols))
    IN  [df |-> num.df,
         transformer |-> normed.transformer,
         transformed |-> normed.out.by # "",
         dataset |->
            [present |-> TRUE,
             df |-> num.df,
             texts |-> TextsOf(num.df, texts_cols, args.empty_text_values,
                               args.replace_empty_text, args.sep_text_token_str),
             categorical_feats |-> categorical_feats,
             numerical_feats |-> normed.out,
             labels |-> Column(num.df, args.label_col)]]

Event(ev, what, rows) == [ev |-> ev, what |-> what, rows |-> rows]

-----------------------------------------------------------------------------
(* load_data_from_folder *)

\* line 39: the tables that were read
PresentFrames == SelectSeq(<<train_df, val_df, test_df>>, LAMBDA df : df # NoFrame)

\* lines 44-45: every column, once for each old column it starts with and
\* is longer than
DerivedCategoricalCols(columns, old_cols) ==
    Flatten([i \in DOMAIN columns |->
               [j \in DOMAIN SelectSeq(old_cols,
                                       LAMBDA old_col :
                                           /\ StartsWith(columns[i], old_col)
                                           /\ Len(columns[i]) > Len(old_col)) |->
                   columns[i]]])

\* lines 53-56: each split is read back by its own index labels
Resplit(combined, df) == IF df = NoFrame THEN NoFrame ELSE Loc(combined, Index(df))

\* lines 41-45: the one-hot branch.  get_dummies rejects a columns argument
\* that is not list-like and a name the table lacks before it encodes;
\* columns=None is encoded (every string column) and line 44 then fails
\* iterating None.  fitted: an encoding has been computed.
OneHotBranch(concat) ==
    IF args.categorical_cols.kind = "bad"
    THEN [raised |-> "TypeError: columns is not list-like", fitted |-> FALSE,
          data_df |-> concat, categorical_cols |-> args.categorical_cols]
    ELSE IF \E c \in Range(args.categorical_cols.names) : c \notin Range(concat.columns)
    THEN [raised |-> "KeyError", fitted |-> FALSE, data_df |-> concat,
          categorical_cols |-> args.categorical_cols]
    ELSE IF args.categorical_cols.kind = "None"
    THEN [raised |-> "TypeError: NoneType is not iterable", fitted |-> TRUE,
          data_df |-> concat,
          categorical_cols |-> args.categorical_cols]
    ELSE LET encoded == GetDummies(concat, args.categorical_cols.names)
         IN  [raised |-> "none",
              \* with no column to encode get_dummies returns the table as is
              fitted |-> args.categorical_cols.names # <<>>,
              data_df |-> encoded,
              categorical_cols |->
                  ColList(DerivedCategoricalCols(encoded.columns,
                                                 args.categorical_cols.names))]

\* CategoricalFeatures(df, cols, 'binary'): a malformed column argument and
\* a column the table lacks are errors
BinaryEncoderRaises(df, cols) ==
    IF cols.kind # "list" THEN "TypeError: columns is not list-like"
    ELSE IF \E c \in Range(cols.names) : c \notin Range(df.columns) THEN "KeyError"
    ELSE "none"

\* lines 46-51: the binary branch.  The codes are put in a fresh frame and
\* joined to the table.
BinaryBranch(concat) ==
    IF BinaryEncoderRaises(concat, args.categorical_cols) # "none"
    THEN [raised |-> BinaryEncoderRaises(concat, args.categorical_cols),
          fitted |-> FALSE, data_df |-> concat,
          categorical_cols |-> args.categorical_cols]
    ELSE LET feat_names == BinaryFeatNames(concat, args.categorical_cols.names)
             vals == BinaryVals(concat, args.categorical_cols.names)
             cat_df == NewFrame(vals, feat_names)
         IN  IF ConcatColumnsRaises(concat, cat_df)
             THEN [raised |-> "InvalidIndexError", fitted |-> TRUE,
                   data_df |-> concat, categorical_cols |-> args.categorical_cols]
             ELSE [raised |-> "none", fitted |-> TRUE,
                   data_df |-> ConcatColumns(concat, cat_df),
                   categorical_cols |-> ColList(feat_names)]

\* lines 38-58
UnionEncode ==
    /\ pc = "encode"
    /\ IF categorical_encode_type \in {"ohe", "binary"}
       THEN LET concat == ConcatRows(PresentFrames)
                branch == IF categorical_encode_type = "ohe"
                          THEN OneHotBranch(concat) ELSE BinaryBranch(concat)
                fit == IF branch.fitted
                       THEN <<Event("cat_fit", categorical_encode_type,
                                    Srcs(concat.rows))>>
                       ELSE <<>>
            IN  IF branch.raised # "none"
                THEN /\ raised' = branch.raised
                     /\ pc' = "raised"
                     /\ events' = events \o fit \o <<Event("raise", branch.raised, <<>>)>>
                     /\ data_df' = concat
                     /\ UNCHANGED <<train_df, val_df, test_df, categorical_cols,
                                    categorical_encode_type>>
                ELSE /\ data_df' = branch.data_df
                     /\ categorical_cols' = branch.categorical_cols
                     /\ train_df' = Resplit(branch.data_df, train_df)
                     /\ val_df' = Resplit(branch.data_df, val_df)
                     /\ test_df' = Resplit(branch.data_df, test_df)
                     /\ categorical_encode_type' = "None"
                     /\ events' = events \o fit
                     /\ pc' = "fit_numerical"
                     /\ UNCHANGED raised
       ELSE /\ pc' = "fit_numerical"
            /\ UNCHANGED <<data_df, train_df, val_df, test_df, categorical_cols,
                           categorical_encode_type, raised, events>>
    /\ UNCHANGED <<args, files, numerical_transformer,
                   train_dataset, val_dataset, test_dataset>>

\* lines 61-69: the transformer classes
KnownMethods == {"yeo_johnson", "box_cox", "quantile_normal"}

\* lines 60-73
FitNumerical ==
    /\ pc = "fit_numerical"
    /\ IF args.numerical_transformer_method # "none"
       THEN IF args.numerical_transformer_method \notin KnownMethods
            THEN /\ raised' = "ValueError: method not implemented"
                 /\ pc' = "raised"
                 /\ events' = Append(events,
                                     Event("raise", "ValueError: method not implemented", <<>>))
                 /\ UNCHANGED <<train_df, numerical_transformer>>
            ELSE IF convert_to_func_raises(args.numerical_cols)
            THEN /\ raised' = "AssertionError"
                 /\ pc' = "raised"
                 /\ events' = Append(events, Event("raise", "AssertionError", <<>>))
                 /\ UNCHANGED <<train_df, numerical_transformer>>
            ELSE LET num == load_num_feats(train_df, convert_to_func(args.numerical_cols))
                 IN  /\ train_df' = num.df
                     /\ IF ~num.feats.present
                        THEN \* fit(None): sklearn rejects the input
                             /\ raised' = "ValueError: fit input"
                             /\ pc' = "raised"
                             /\ events' = Append(events,
                                                 Event("raise", "ValueError: fit input", <<>>))
                             /\ UNCHANGED numerical_transformer
                        ELSE /\ numerical_transformer' =
                                    Fit(NewTransformer(args.numerical_transformer_method),
                                        num.feats.X)
                             /\ events' = Append(events,
                                                 Event("num_fit", "train",
                                                       Srcs(num.feats.X)))
                             /\ pc' = "load_train"
                             /\ UNCHANGED raised
       ELSE /\ numerical_transformer' = NoTransformer
            /\ pc' = "load_train"
            /\ UNCHANGED <<train_df, raised, events>>
    /\ UNCHANGED <<args, files, val_df, test_df, data_df, categorical_cols,
                   categorical_encode_type, train_dataset, val_dataset, test_dataset>>

\* one load_data call of lines 75-121 and what it leaves behind
LoadSplit(split, df) ==
    LET err == load_data_raises(df, categorical_cols, categorical_encode_type)
        r == load_data(df, categorical_cols, categorical_encode_type,
                       numerical_transformer)
    IN  IF err # "none"
        THEN [raised |-> err, dataset |-> NoDataset, df |-> df,
              transformer |-> numerical_transformer,
              events |-> <<Event("raise", err, <<>>)>>]
        ELSE [raised |-> "none", dataset |-> r.dataset,
              \* data_df[:50] is a new frame; without debug the fillna of
              \* line 220 writes into the caller's frame
              df |-> IF args.debug THEN df ELSE r.df,
              transformer |-> r.transformer,
              events |-> IF r.transformed
                         THEN <<Event("transform", split, Srcs(r.df.rows))>>
                         ELSE <<>>]

\* lines 75-89
LoadTrain ==
    /\ pc = "load_train"
    /\ LET r == LoadSplit("train", train_df)
       IN  /\ train_dataset' = r.dataset
           /\ train_df' = r.df
           /\ numerical_transformer' = r.transformer
           /\ events' = events \o r.events
           /\ raised' = r.raised
           /\ pc' = IF r.raised # "none" THEN "raised" ELSE "load_test"
    /\ UNCHANGED <<args, files, val_df, test_df, data_df, categorical_cols,
                   categorical_encode_type, val_dataset, test_dataset>>

\* lines 90-104
LoadTest ==
    /\ pc = "load_test"
    /\ LET r == LoadSplit("test", test_df)
       IN  /\ test_dataset' = r.dataset
           /\ test_df' = r.df
           /\ numerical_transformer' = r.transformer
           /\ events' = events \o r.events
           /\ raised' = r.raised
           /\ pc' = IF r.raised # "none" THEN "raised" ELSE "load_val"
    /\ UNCHANGED <<args, files, train_df, val_df, data_df, categorical_cols,
                   categorical_encode_type, train_dataset, val_dataset>>

\* lines 106-123 without the test of line 106: load_data(None, ...) fails
\* at its first use of the table
LoadVal_unguarded ==
    /\ pc = "load_val"
    /\ IF val_df # NoFrame
       THEN LET r == LoadSplit("val", val_df)
            IN  /\ val_dataset' = r.dataset
                /\ val_df' = r.df
                /\ numerical_transformer' = r.transformer
                /\ events' = events \o r.events
                /\ raised' = r.raised
                /\ pc' = IF r.raised # "none" THEN "raised" ELSE "return"
       ELSE /\ raised' = "TypeError: NoneType is not subscriptable"
            /\ pc' = "raised"
            /\ events' = Append(events, Event("raise", "TypeError", <<>>))
            /\ UNCHANGED <<val_df, numerical_transformer, val_dataset>>
    /\ UNCHANGED <<args, files, train_df, test_df, data_df, categorical_cols,
                   categorical_encode_type, train_dataset, test_dataset>>

\* lines 106-123
LoadVal ==
    /\ pc = "load_val"
    /\ IF val_df # NoFrame
       THEN LET r == LoadSplit("val", val_df)
            IN  /\ val_dataset' = r.dataset
                /\ val_df' = r.df
                /\ numerical_transformer' = r.transformer
                /\ events' = events \o r.events
                /\ raised' = r.raised
                /\ pc' = IF r.raised # "none" THEN "raised" ELSE "return"
       ELSE /\ val_dataset' = NoDataset
            /\ pc' = "return"
            /\ UNCHANGED <<val_df, numerical_transformer, events, raised>>
    /\ UNCHANGED <<args, files, train_df, test_df, data_df, categorical_cols,
                   categorical_encode_type, train_dataset, test_dataset>>

\* line 125
Return ==
    /\ pc = "return"
    /\ pc' = "done"
    /\ UNCHANGED <<args, files, train_df, val_df, test_df, data_df,
                   categorical_cols, categorical_encode_type,
                   numerical_transformer, train_dataset, val_dataset,
                   test_dataset, raised, events>>

Next == UnionEncode \/ FitNumerical \/ LoadTrain \/ LoadTest \/ LoadVal \/ Return

-----------------------------------------------------------------------------
(* The calls explored: the tables read and the arguments *)

Labels == {0, 1, 2}

\* the value at a position of a column, by the column's name
CellOf(split, pos, col) ==
    CASE col = "t1" -> Str("hi")
      [] col = "t2" -> IF pos = 1 THEN NaN ELSE Str("yo")
      [] col = "c" -> IF split = "val" THEN NaN
                      ELSE IF split = "train" /\ pos % 2 = 1 THEN Str("a")
                      ELSE Str("b")
      [] col = "cc" -> IF split = "train" THEN Str("b") ELSE Str("a")
      [] col \in {"n", "cn"} -> IF pos = 2 THEN NaN ELSE Num(2 * pos)
      [] col = "y" -> Num(2 * (pos % 2))

\* a table as read_csv(..., index_col=0) gives it
Table(split, labels, columns) ==
    Frame(columns,
          [i \in DOMAIN labels |->
              [src |-> <<split, i>>, idx |-> labels[i],
               cells |-> [c \in Range(columns) |-> CellOf(split, i, c)]]])

\* a table whose text columns hold the given values in every row
TextTable(split, labels, values) ==
    Frame([j \in DOMAIN values |-> "t" \o NatStr(j)] \o <<"y">>,
          [i \in DOMAIN labels |->
              [src |-> <<split, i>>, idx |-> labels[i],
               cells |-> [c \in {"t" \o NatStr(j) : j \in DOMAIN values} \cup {"y"} |->
                            IF c = "y" THEN Num(0)
                            ELSE values[CHOOSE j \in DOMAIN values :
                                            c = "t" \o NatStr(j)]]]])

Schemas == {<<"t1", "t2", "c", "n", "y">>,
            <<"t1", "c", "cn", "y">>,
            <<"t1", "c", "cc", "n", "y">>}

Args(cat, num, text, enc, method, debug, empties, replace, sep) ==
    [text_cols |-> text, label_col |-> "y", categorical_cols |-> cat,
     numerical_cols |-> num, sep_text_token_str |-> sep,
     categorical_encode_type |-> enc, numerical_transformer_method |-> method,
     empty_text_values |-> empties, replace_empty_text |-> replace,
     debug |-> debug]

\* the state after lines 31-36
Start(a, train, val, test) ==
    /\ args = a
    /\ files = [train |-> train, val |-> val, test |-> test]
    /\ train_df = train
    /\ val_df = val
    /\ test_df = test
    /\ data_df = NoFrame
    /\ categorical_cols = a.categorical_cols
    /\ categorical_encode_type = a.categorical_encode_type
    /\ numerical_transformer = NoTransformer
    /\ train_dataset = NoDataset
    /\ val_dataset = NoDataset
    /\ test_dataset = NoDataset
    /\ raised = "none"
    /\ events = <<>>
    /\ pc = "encode"

LabelSeqs(n) == UNION {[1..k -> Labels] : k \in 1..n}

\* every argument setting, on small tables.  The binary encoder is given at
\* least one column: what it returns for none is not part of load_data.py.
InitConfig ==
    \E columns \in Schemas,
       cat \in {ColNone, ColList(<<>>), ColList(<<"c">>), ColList(<<"c", "cc">>), ColBad},
       num \in {ColNone, ColList(<<>>), ColList(<<"n", "cn">>), ColBad},
       text \in {ColList(<<"t1", "t2">>), ColBad},
       enc \in {"ohe", "binary", "none", "label_smoothing"},
       method \in {"none", "yeo_johnson", "box_cox", "quantile_normal", "standard"},
       debug \in BOOLEAN,
       has_val \in BOOLEAN :
        /\ enc = "binary" => cat \notin {ColNone, ColList(<<>>)}
        /\ Start(Args(cat, num, text, enc, method, debug, NoEmptyTextValues, None, " "),
                 Table("train", <<0, 1>>, columns),
                 IF has_val THEN Table("val", <<2>>, columns) ELSE NoFrame,
                 Table("test", <<3>>, columns))

\* every labelling of the rows, under the union-fit schemes
InitIndex ==
    \E enc \in {"ohe", "binary"},
       tr \in LabelSeqs(MaxRows),
       te \in LabelSeqs(MaxRows),
       va \in LabelSeqs(1) \cup {<<>>} :
        Start(Args(ColList(<<"c">>), ColList(<<"n">>), ColList(<<"t1", "t2">>),
                   enc, "quantile_normal", FALSE, NoEmptyTextValues, None, " "),
              Table("train", tr, <<"t1", "t2", "c", "n", "y">>),
              IF va = <<>> THEN NoFrame
              ELSE Table("val", va, <<"t1", "t2", "c", "n", "y">>),
              Table("test", te, <<"t1", "t2", "c", "n", "y">>))

\* tables longer than the debug limit, labelled apart
InitBig ==
    \E enc \in {"ohe", "none"},
       method \in {"none", "yeo_johnson", "quantile_normal"},
       debug \in BOOLEAN,
       has_val \in BOOLEAN :
        LET n == DEBUG_ROWS + BigExtra
        IN  Start(Args(ColList(<<"c">>), ColList(<<"n">>), ColList(<<"t1", "t2">>),
                       enc, method, debug, NoEmptyTextValues, None, " "),
                  Table("train", [i \in 1..n |-> i - 1], <<"t1", "t2", "c", "n", "y">>),
                  IF has_val
                  THEN Table("val", [i \in 1..n |-> 1000 + i], <<"t1", "t2", "c", "n", "y">>)
                  ELSE NoFrame,
                  Table("test", [i \in 1..n |-> 2000 + i], <<"t1", "t2", "c", "n", "y">>))

TextValues == {Str("hello"), Str("nan"), NaN, None, Num(3)}

\* every row of text values, sentinel set, replacement and separator
InitText ==
    \E values \in UNION {[1..k -> TextValues] : k \in 1..MaxTexts},
       empties \in {NoEmptyTextValues, EmptyTextValues({"nan"}),
                    EmptyTextValues({"hello", "None", "1.5"})},
       replace \in {None, Str("MISSING")},
       sep \in {" ", "|"} :
        Start(Args(ColNone, ColNone,
                   ColList([j \in DOMAIN values |-> "t" \o NatStr(j)]),
                   "none", "none", FALSE, empties, replace, sep),
              TextTable("train", <<0>>, values),
              NoFrame,
              TextTable("test", <<0, 1>>, values))

Init == InitConfig \/ InitIndex \/ InitBig \/ InitText

Spec == Init /\ [][Next]_vars

-----------------------------------------------------------------------------
(* Properties *)

EventsOf(ev) == SelectSeq(events, LAMBDA e : e.ev = ev)

UnionScheme == args.categorical_encode_type \in {"ohe", "binary"}

\* the tables as read, concatenated
FilesConcat ==
    ConcatRows(SelectSeq(<<files.train, files.val, files.test>>,
                         LAMBDA df : df # NoFrame))

\* C1: after the union fit, re-splitting by the original index gives each
\* split exactly the rows it was read with, in their order, whatever the
\* index labels are.
C1_ResplitRecoversSplits ==
    (UnionScheme /\ pc = "fit_numerical") =>
        /\ Srcs(train_df.rows) = Srcs(files.train.rows)
        /\ Srcs(val_df.rows) = Srcs(files.val.rows)
        /\ Srcs(test_df.rows) = Srcs(files.test.rows)

\* C9: under the binary scheme every row of every split carries the codes
\* of its own categorical values after the re-split, the join adds no row
\* to the table and leaves no code cell of a row empty.
C9_BinaryCodesRowForRow ==
    (args.categorical_encode_type = "binary" /\ pc = "fit_numerical") =>
        /\ Len(data_df.rows) = Len(FilesConcat.rows)
        /\ \A df \in {train_df, val_df, test_df} :
             \A i \in DOMAIN df.rows :
                \A c \in Range(args.categorical_cols.names) :
                   \A b \in 1..CeilLog2(Len(DistinctOf(FilesConcat, c))) :
                      df.rows[i].cells[c \o "_" \o NatStr(b - 1)]
                        = BinaryCode(FilesConcat, c, df.rows[i].cells[c])[b]

\* the indicator columns get_dummies made from the configured columns
IndicatorColumns ==
    {d.name : d \in UNION {Range(DummiesOf(FilesConcat, c)) :
                             c \in Range(args.categorical_cols.names)}}

\* C10: under the one-hot scheme the derived categorical column list is
\* exactly the indicator columns of the configured categorical columns, each
\* listed once.
C10_DerivedColumnsAreIndicators ==
    (args.categorical_encode_type = "ohe" /\ pc = "fit_numerical") =>
        /\ Range(categorical_cols.names) = IndicatorColumns
        /\ ~HasDuplicates(categorical_cols.names)

AfterFit == pc \in {"load_train", "load_test", "load_val", "return", "done"}

\* C2: the numerical transformer is fitted once, on rows of the training
\* table only, before any split is transformed, and the passes over the
\* splits leave the fitted state as the fit made it.
C2_FitOnceOnTrainBeforeTransforms ==
    /\ Len(EventsOf("num_fit")) <= 1
    /\ (AfterFit /\ args.numerical_transformer_method # "none") =>
          /\ Len(EventsOf("num_fit")) = 1
          /\ numerical_transformer.n_fit = 1
          /\ Srcs(numerical_transformer.fitted) = EventsOf("num_fit")[1].rows
    /\ \A i, j \in DOMAIN events :
          (events[i].ev = "transform" /\ events[j].ev = "num_fit") => j < i
    /\ \A j \in DOMAIN events :
          events[j].ev = "num_fit" =>
             \A k \in DOMAIN events[j].rows : events[j].rows[k][1] = "train"

\* C3: with debug set, the categorical union fit and the numerical fit see
\* no row beyond the first 50 of a split.
C3_DebugFitsSeeFirstRows ==
    args.debug =>
        \A j \in DOMAIN events :
           events[j].ev \in {"cat_fit", "num_fit"} =>
              \A k \in DOMAIN events[j].rows : events[j].rows[k][2] <= DEBUG_ROWS

ConfigurationErrors ==
    {"ValueError: method not implemented", "AssertionError",
     "Exception: encoding type", "TypeError: columns is not list-like"}

\* C4: when a configuration error is raised, no categorical fit and no
\* numerical fit has been executed.
C4_ConfigErrorBeforeAnyFit ==
    raised \in ConfigurationErrors =>
        /\ EventsOf("cat_fit") = <<>>
        /\ EventsOf("num_fit") = <<>>

NoneMatches(cols) ==
    \/ cols.kind = "None"
    \/ cols.kind = "list" /\ Range(cols.names) \cap Range(files.train.columns) = {}

\* a call whose scheme, method and column arguments are all supported
SupportedCall ==
    /\ args.categorical_encode_type \in {"ohe", "binary", "none"}
    /\ args.numerical_transformer_method \in KnownMethods \cup {"none"}
    /\ args.categorical_cols.kind # "bad"
    /\ args.numerical_cols.kind # "bad"
    /\ args.text_cols.kind # "bad"

Datasets == {ds \in {train_dataset, val_dataset, test_dataset} : ds.present}

\* C5: a call in which no column matches the categorical (numerical)
\* predicate ends without error, and its bundles carry no categorical
\* (numerical) matrix.
C5_AbsentFamilyIsNotAnError ==
    SupportedCall =>
        /\ NoneMatches(args.categorical_cols) =>
              /\ pc # "raised"
              /\ \A ds \in Datasets : ~ds.categorical_feats.present
        /\ NoneMatches(args.numerical_cols) =>
              /\ pc # "raised"
              /\ \A ds \in Datasets : ~ds.numerical_feats.present

\* C6: without val.csv the validation bundle is None and its pass raises
\* nothing, the train and test bundles are returned, and the union fit
\* concatenates and re-splits the train and test tables only.
C6_MissingValidation ==
    files.val = NoFrame =>
        /\ val_df = NoFrame
        /\ ~val_dataset.present
        /\ \A j \in DOMAIN events :
              events[j].ev = "cat_fit" =>
                 events[j].rows = Srcs(files.train.rows) \o Srcs(files.test.rows)
        /\ (train_dataset.present /\ test_dataset.present) =>
              /\ raised = "none"
              /\ pc \in {"load_val", "return", "done"}
        /\ pc = "done" => train_dataset.present /\ test_dataset.present

C6_Witness ==
    /\ files.val = NoFrame
    /\ pc = "done"
    /\ UnionScheme
    /\ Len(EventsOf("cat_fit")) = 1
    /\ train_dataset.present /\ test_dataset.present /\ ~val_dataset.present

RECURSIVE JoinedUpTo(_, _, _)
JoinedUpTo(strs, sep, n) ==
    IF n = 0 THEN ""
    ELSE IF n = 1 THEN strs[1]
    ELSE JoinedUpTo(strs, sep, n - 1) \o sep \o strs[n]

\* the text a row's values must give: sentinels dropped or replaced, the
\* rest kept, joined with the padded separator
ExpectedText(vals) ==
    LET marked == [j \in DOMAIN vals |->
                     IF ToStr(vals[j]) \in SentinelsOf(args.empty_text_values)
                     THEN [keep |-> args.replace_empty_text # None,
                           s |-> ToStr(args.replace_empty_text)]
                     ELSE [keep |-> TRUE, s |-> ToStr(vals[j])]]
        kept == SelectSeq(marked, LAMBDA m : m.keep)
    IN  JoinedUpTo([j \in DOMAIN kept |-> kept[j].s],
                   " " \o args.sep_text_token_str \o " ", Len(kept))

TextValuesOfRow(ds, i) ==
    LET cols == SelectSeq(ds.df.columns, LAMBDA c : c \in Range(args.text_cols.names))
    IN  [j \in DOMAIN cols |-> ds.df.rows[i].cells[cols[j]]]

\* C7: the aggregated text of every row is its text values in column order,
\* stringified, sentinels dropped (no replacement) or replaced, joined with
\* ' <sep> '; ["nan","hello","None"] with "|" gives "hello", and with the
\* replacement "MISSING" gives "MISSING | hello | MISSING".
C7_AggregatedText ==
    \A ds \in Datasets :
       \A i \in DOMAIN ds.texts :
          /\ ds.texts[i] = ExpectedText(TextValuesOfRow(ds, i))
          /\ ( /\ TextValuesOfRow(ds, i) = <<Str("nan"), Str("hello"), Str("None")>>
                  \/ TextValuesOfRow(ds, i) = <<NaN, Str("hello"), None>>
               /\ ~args.empty_text_values.given
               /\ args.sep_text_token_str = "|" ) =>
                 ds.texts[i] = IF args.replace_empty_text = None THEN "hello"
                               ELSE "MISSING | hello | MISSING"
          /\ ( /\ \A j \in DOMAIN TextValuesOfRow(ds, i) :
                     ToStr(TextValuesOfRow(ds, i)[j]) \in SentinelsOf(args.empty_text_values)
               /\ args.replace_empty_text = None ) => ds.texts[i] = ""

C7_Witness ==
    /\ pc = "done"
    /\ TextValuesOfRow(train_dataset, 1) = <<NaN, Str("hello"), None>>
    /\ train_dataset.texts = <<"MISSING | hello | MISSING">>
    /\ \E i \in DOMAIN test_dataset.texts : test_dataset.texts[i] # ""

\* the cell of a row as it was read
OriginalCell(src, c) == files[src[1]].rows[src[2]].cells[c]

\* C8: every missing numerical value of a bundle's matrix holds the median
\* of its column over the rows of that same matrix.
C8_ImputedWithOwnMedian ==
    \A ds \in Datasets :
       ds.numerical_feats.present =>
          LET X == ds.numerical_feats.X
              num_cols == SelectSeq(ds.df.columns,
                                    LAMBDA c : c \in Range(args.numerical_cols.names))
          IN  \A i \in DOMAIN X :
                 \A j \in DOMAIN num_cols :
                    OriginalCell(X[i].src, num_cols[j]) = NaN =>
                       X[i].x[j] = Median([k \in DOMAIN X |->
                                             OriginalCell(X[k].src, num_cols[j])])

=============================================================================
